---- MODULE Spec2Model ----
(***************************************************************************)
(* The #[circuit(mode)] attribute macro of circuit_macro/src/lib.rs:       *)
(* generate_macro reads a function declaration, rewrites its body with     *)
(* modify_body / replace_expressions into circuit-builder calls and emits  *)
(* a width-dispatching wrapper.  The emitted wrapper is then called once.  *)
(***************************************************************************)
EXTENDS Integers, Sequences, FiniteSets, TLC

VARIABLES item, mode, pc, type_name, output_type, transformed_block,
          param_names, expanded, stdout, panicked, run

vars == <<item, mode, pc, type_name, output_type, transformed_block,
          param_names, expanded, stdout, panicked, run>>

(***************************************************************************)
(* Syntax trees.  Every syn node (Expr, Stmt, Block) is a record           *)
(* [tag, op, kids]: tag is the syn variant, op the operator, method or     *)
(* identifier, kids the children in source order.                          *)
(***************************************************************************)
Node(tag, op, kids) == [tag |-> tag, op |-> op, kids |-> kids]

Path(name) == Node("Path", name, <<>>)
Binary(op, left, right) == Node("Binary", op, <<left, right>>)
Unary(op, expr) == Node("Unary", op, <<expr>>)
Paren(expr) == Node("Paren", "", <<expr>>)
Reference(expr) == Node("Reference", "", <<expr>>)
MethodCall(method, args) == Node("MethodCall", method, args)
Block(stmts) == Node("Block", "", stmts)
ExprIf(cond, then_branch) == Node("If", "", <<cond, then_branch>>)
ExprIfElse(cond, then_branch, else_branch) ==
    Node("If", "", <<cond, then_branch, else_branch>>)
ForLoop(body) == Node("ForLoop", "", <<body>>)

\* Stmt::Expr(expr, semi_opt): op is ";" when the semicolon is present.
StmtExpr(expr, semi) == Node("StmtExpr", semi, <<expr>>)
\* Stmt::Local with and without an initializer.
Local(name, init) == Node("Local", name, <<init>>)
LocalNoInit(name) == Node("Local", name, <<>>)
\* Stmt::Item: a nested fn item with its own body.
StmtItem(name, body) == Node("Item", name, <<body>>)

\* A panic!() unwinding out of the rewriter, carried as a marker node.
Panic(msg) == Node("Panic", msg, <<>>)
IsPanic(n) == n.tag = "Panic"
NoNode == Node("None", "", <<>>)

(***************************************************************************)
(* replace_expressions and modify_body                                     *)
(***************************************************************************)
\* The BinOp variants whose arm rewrites both operands first (lines 166-237).
ComparisonOps == {"Eq", "Ne", "Gt", "Ge", "Lt", "Le"}
\* The BinOp variants whose arm interpolates the operands as they are
\* (lines 238-324).
ArithmeticOps == {"Add", "Sub", "Mul", "Div", "Rem", "BitAnd", "BitOr", "BitXor"}

\* The context method each arm names.
BuilderMethod(op) ==
    CASE op = "Eq" -> "eq"
      [] op = "Ne" -> "ne"
      [] op = "Gt" -> "gt"
      [] op = "Ge" -> "ge"
      [] op = "Lt" -> "lt"
      [] op = "Le" -> "le"
      [] op = "Add" -> "add"
      [] op = "Sub" -> "sub"
      [] op = "Mul" -> "mul"
      [] op = "Div" -> "div"
      [] op = "Rem" -> "rem"
      [] op = "BitAnd" -> "and"
      [] op = "BitOr" -> "or"
      [] op = "BitXor" -> "xor"
      [] op = "Not" -> "not"

\* What `&#operand` inside parse_quote! parses to.  quote! splices the
\* operand's tokens after the `&` without delimiters, and a unary `&` binds
\* tighter than every binary operator, so the reference attaches to the
\* leftmost operand of an interpolated binary expression.
RECURSIVE ParseRef(_)
ParseRef(operand) ==
    IF operand.tag = "Binary"
    THEN Binary(operand.op, ParseRef(operand.kids[1]), operand.kids[2])
    ELSE Reference(operand)

\* BuilderCall with the operands interpolated in the opposite order.
BuilderCallSwapped(method, operands) ==
    Block(<<StmtExpr(Reference(MethodCall(method,
              [i \in 1..Len(operands) |->
                  ParseRef(operands[Len(operands) + 1 - i])])), "")>>)

\* parse_quote! {{ &context.method(&#left, &#right) }}
BuilderCall(method, operands) ==
    Block(<<StmtExpr(Reference(MethodCall(method,
              [i \in 1..Len(operands) |-> ParseRef(operands[i])])), "")>>)

\* MuxBlock with the condition bound before the two branch values.
MuxBlockCondFirst(then_expr, else_expr, cond) ==
    Block(<<Local("cond", cond),
            Local("if_true", then_expr),
            Local("if_false", else_expr),
            StmtExpr(Reference(MethodCall("mux",
                <<Path("cond"), Path("if_true"), Path("if_false")>>)), "")>>)

\* parse_quote! {{ let if_true = ..; let if_false = ..; let cond = ..;
\*                 &context.mux(cond, if_true, if_false) }}
MuxBlock(then_expr, else_expr, cond) ==
    Block(<<Local("if_true", then_expr),
            Local("if_false", else_expr),
            Local("cond", cond),
            StmtExpr(Reference(MethodCall("mux",
                <<Path("cond"), Path("if_true"), Path("if_false")>>)), "")>>)

\* The first panic raised while the elements of seq were produced in order.
FirstPanic(seq) ==
    LET hit == {i \in 1..Len(seq) : IsPanic(seq[i])}
    IN  IF hit = {} THEN NoNode
        ELSE seq[CHOOSE i \in hit : \A j \in hit : i <= j]

RECURSIVE replace_expressions(_), modify_body(_), modify_stmt(_)

\* replace_expressions with the arithmetic and not arms rewriting their
\* operands first, as the comparison arms do.
replace_expressions_recursing(expr) ==
    IF expr.tag = "Binary" /\ expr.op \in ComparisonOps \cup ArithmeticOps THEN
        LET left == replace_expressions(expr.kids[1])
            right == replace_expressions(expr.kids[2])
        IN  IF IsPanic(left) THEN left
            ELSE IF IsPanic(right) THEN right
            ELSE BuilderCall(BuilderMethod(expr.op), <<left, right>>)
    ELSE IF expr.tag = "Unary" /\ expr.op = "Not" THEN
        LET operand == replace_expressions(expr.kids[1])
        IN  IF IsPanic(operand) THEN operand
            ELSE BuilderCall(BuilderMethod(expr.op), <<operand>>)
    ELSE IF expr.tag = "If" THEN
        IF Len(expr.kids) = 3 THEN
            LET then_expr == modify_body(expr.kids[2])
                else_expr == IF expr.kids[3].tag = "Block"
                             THEN modify_body(expr.kids[3])
                             ELSE Panic("Expected a block in else branch")
                cond == replace_expressions(expr.kids[1])
            IN  IF IsPanic(then_expr) THEN then_expr
                ELSE IF IsPanic(else_expr) THEN else_expr
                ELSE IF IsPanic(cond) THEN cond
                ELSE MuxBlock(then_expr, else_expr, cond)
        ELSE Panic("Expected else branch for if expression")
    ELSE expr

replace_expressions(expr) ==
    IF expr.tag = "Binary" /\ expr.op \in ComparisonOps THEN
        LET left == replace_expressions(expr.kids[1])
            right == replace_expressions(expr.kids[2])
        IN  IF IsPanic(left) THEN left
            ELSE IF IsPanic(right) THEN right
            ELSE BuilderCall(BuilderMethod(expr.op), <<left, right>>)
    ELSE IF expr.tag = "Binary" /\ expr.op \in ArithmeticOps THEN
        BuilderCall(BuilderMethod(expr.op), expr.kids)
    ELSE IF expr.tag = "Unary" /\ expr.op = "Not" THEN
        BuilderCall(BuilderMethod(expr.op), expr.kids)
    ELSE IF expr.tag = "If" THEN
        IF Len(expr.kids) = 3 THEN
            LET then_expr == modify_body(expr.kids[2])
                else_expr == IF expr.kids[3].tag = "Block"
                             THEN modify_body(expr.kids[3])
                             ELSE Panic("Expected a block in else branch")
                cond == replace_expressions(expr.kids[1])
            IN  IF IsPanic(then_expr) THEN then_expr
                ELSE IF IsPanic(else_expr) THEN else_expr
                ELSE IF IsPanic(cond) THEN cond
                ELSE MuxBlock(then_expr, else_expr, cond)
        ELSE Panic("Expected else branch for if expression")
    ELSE expr

\* modify_stmt that also rewrites the body of a nested item.
modify_stmt_items(stmt) ==
    IF stmt.tag = "StmtExpr" THEN
        LET expr == replace_expressions(stmt.kids[1])
        IN  IF IsPanic(expr) THEN expr ELSE StmtExpr(expr, stmt.op)
    ELSE IF stmt.tag = "Local" /\ Len(stmt.kids) = 1 THEN
        LET init == replace_expressions(stmt.kids[1])
        IN  IF IsPanic(init) THEN init ELSE Local(stmt.op, init)
    ELSE IF stmt.tag = "Item" THEN
        LET body == modify_body(stmt.kids[1])
        IN  IF IsPanic(body) THEN body ELSE StmtItem(stmt.op, body)
    ELSE stmt

\* One step of the closure inside modify_body (lines 141-153).
modify_stmt(stmt) ==
    IF stmt.tag = "StmtExpr" THEN
        LET expr == replace_expressions(stmt.kids[1])
        IN  IF IsPanic(expr) THEN expr ELSE StmtExpr(expr, stmt.op)
    ELSE IF stmt.tag = "Local" /\ Len(stmt.kids) = 1 THEN
        LET init == replace_expressions(stmt.kids[1])
        IN  IF IsPanic(init) THEN init ELSE Local(stmt.op, init)
    ELSE stmt

modify_body(block) ==
    LET stmts == [i \in 1..Len(block.kids) |-> modify_stmt(block.kids[i])]
    IN  IF \E i \in 1..Len(stmts) : IsPanic(stmts[i])
        THEN FirstPanic(stmts)
        ELSE Block(stmts)

(***************************************************************************)
(* The declarations the macro is applied to                                *)
(***************************************************************************)
\* Largest number of declared parameters.
MaxParams == 2
\* Largest small argument value passed to the emitted wrapper (the all-ones
\* value of the selected width is always passed as well).
MaxArg == 1

\* The i-th parameter's identifier.
ParamName(i) == CASE i = 1 -> "a" [] i = 2 -> "b" [] i = 3 -> "c" [] OTHER -> "d"

\* FnArg::Typed with a Pat::Ident pattern, FnArg::Typed with another pattern
\* (a tuple pattern), and FnArg::Receiver (`self`, first position only).
TypedIdent(i) == [kind |-> "Typed", pat |-> "Ident", name |-> ParamName(i), ty |-> "T"]
TypedTuple(i) == [kind |-> "Typed", pat |-> "Tuple", name |-> "", ty |-> "T"]
Receiver == [kind |-> "Receiver", pat |-> "", name |-> "self", ty |-> ""]

FnArgs(i) == {TypedIdent(i), TypedTuple(i)} \cup (IF i = 1 THEN {Receiver} ELSE {})

RECURSIVE InputLists(_)
InputLists(n) ==
    IF n = 0 THEN {<<>>}
    ELSE LET shorter == InputLists(n - 1)
         IN  shorter \cup {Append(s, arg) : s \in {t \in shorter : Len(t) = n - 1},
                                             arg \in FnArgs(n)}

a == Path("a")
b == Path("b")

\* Every BinOp the parser can hand over: the fourteen rewritten ones and a
\* shift, which no arm matches.
BinOps == ComparisonOps \cup ArithmeticOps \cup {"Shl"}

\* Rust binding strength of a binary operator (higher binds tighter).
Precedence(op) ==
    CASE op \in {"Mul", "Div", "Rem"} -> 7
      [] op \in {"Add", "Sub"} -> 6
      [] op = "Shl" -> 5
      [] op = "BitAnd" -> 4
      [] op = "BitXor" -> 3
      [] op = "BitOr" -> 2
      [] op \in ComparisonOps -> 1

\* Binary(op, left, right) is a tree syn's parser produces from source text:
\* binary operators are left-associative, comparisons do not chain.
Parses(op, left, right) ==
    /\ left.tag = "Binary" =>
          IF op \in ComparisonOps THEN Precedence(left.op) > Precedence(op)
                                  ELSE Precedence(left.op) >= Precedence(op)
    /\ right.tag = "Binary" => Precedence(right.op) > Precedence(op)
    /\ left.tag # "If"

Max == ExprIfElse(Binary("Gt", a, b), Block(<<StmtExpr(a, "")>>),
                  Block(<<StmtExpr(b, "")>>))
IfNoElse == ExprIf(Binary("Gt", a, b), Block(<<StmtExpr(a, "")>>))

LeftOperands == {a, b, Binary("Add", a, b), Binary("Mul", a, b),
                 Unary("Not", a), Paren(Binary("Sub", a, b))}
RightOperands == LeftOperands \cup {Max, IfNoElse}

BinaryExprs == {Binary(op, left, right) :
                   op \in BinOps, left \in LeftOperands, right \in RightOperands}
UnaryExprs == {Unary(op, e) : op \in {"Not", "Neg"},
                              e \in {a, Paren(Binary("Add", a, b)), Unary("Not", b), Max}}

Conds == {Binary("Gt", a, b), Binary("Eq", Binary("Add", a, b), b),
          Paren(Binary("Lt", a, b)), a}
Branches == {Block(<<StmtExpr(a, "")>>),
             Block(<<StmtExpr(Binary("Mul", a, b), "")>>),
             Block(<<Local("t", Binary("Sub", a, b)),
                     StmtExpr(Binary("BitXor", Path("t"), b), "")>>),
             Block(<<StmtExpr(Max, "")>>),
             Block(<<StmtExpr(IfNoElse, "")>>)}
IfExprs == {ExprIfElse(c, t, e) : c \in Conds, t \in Branches, e \in Branches}
           \cup {ExprIf(c, t) : c \in Conds, t \in Branches}
           \cup {ExprIfElse(c, t, Max) : c \in Conds, t \in Branches}

\* Statements no arm of modify_body changes, each with arithmetic inside.
LoopStmt == StmtExpr(ForLoop(Block(<<StmtExpr(Binary("Add", a, b), ";"),
                                     StmtExpr(IfNoElse, "")>>)), "")
ItemStmt == StmtItem("helper", Block(<<StmtExpr(Binary("Mul", a, b), "")>>))
Prefixes == {Local("t", Binary("Mul", a, b)),
             Local("t", Binary("Ge", Binary("Add", a, b), b)),
             Local("t", Binary("Add", a, Binary("Mul", a, b))),
             Local("t", Max),
             Local("t", IfNoElse),
             Local("t", Paren(Binary("Add", a, b))),
             LocalNoInit("t"),
             StmtExpr(Binary("Add", a, b), ";"),
             LoopStmt,
             ItemStmt}
Tails == {StmtExpr(Binary("Sub", Path("t"), a), ""),
          StmtExpr(Binary("Add", Binary("Mul", a, b), Path("t")), ""),
          StmtExpr(Path("t"), ""),
          StmtExpr(Max, "")}

\* The function bodies the rewriter is exercised on.
Bodies ==
    {Block(<<StmtExpr(e, "")>>) : e \in {x \in BinaryExprs :
                                      Parses(x.op, x.kids[1], x.kids[2])}}
    \cup {Block(<<StmtExpr(e, "")>>) : e \in UnaryExprs \cup IfExprs \cup {a}}
    \cup {Block(<<p, t>>) : p \in Prefixes, t \in Tails}
    \cup {Block(<<Local("t", Binary("Mul", a, b)), p, t>>) :
              p \in {LoopStmt, ItemStmt, LocalNoInit("u")}, t \in Tails}

\* The bodies paired with every signature and mode.
SignatureBodies == {Block(<<StmtExpr(Binary("Add", a, b), "")>>),
                    Block(<<StmtExpr(Max, "")>>),
                    Block(<<StmtExpr(IfNoElse, "")>>)}

\* The attribute's identifier: the two documented modes and another one.
Modes == {"compile", "execute", "debug"}

ItemFn(inputs, output, block) ==
    [ident |-> "f", inputs |-> inputs, output |-> output, block |-> block]

Items ==
    {ItemFn(<<TypedIdent(1), TypedIdent(2)>>, "Type", body) : body \in Bodies}
    \cup {ItemFn(inputs, output, body) : inputs \in InputLists(MaxParams),
              output \in {"Type", "Default"}, body \in SignatureBodies}

Init ==
    /\ item \in Items
    /\ mode \in (IF item.block \in SignatureBodies THEN Modes ELSE {"execute"})
    /\ pc = "type_name"
    /\ type_name = ""
    /\ output_type = ""
    /\ transformed_block = NoNode
    /\ param_names = <<>>
    /\ expanded = <<>>
    /\ stdout = <<>>
    /\ panicked = ""
    /\ run = <<>>

(***************************************************************************)
(* generate_macro, one action per step of its body                         *)
(***************************************************************************)
Abort(msg) ==
    /\ pc' = "aborted"
    /\ panicked' = msg

\* Lines 21-25: `&inputs[0]` panics on an empty Punctuated list.
GetTypeName ==
    /\ pc = "type_name"
    /\ IF Len(item.inputs) = 0 THEN
           /\ Abort("index out of bounds")
           /\ UNCHANGED type_name
       ELSE IF item.inputs[1].kind = "Typed" THEN
           /\ type_name' = item.inputs[1].ty
           /\ pc' = "output_type"
           /\ UNCHANGED panicked
       ELSE
           /\ Abort("Expected typed argument")
           /\ UNCHANGED type_name
    /\ UNCHANGED <<item, mode, output_type, transformed_block, param_names,
                   expanded, stdout, run>>

\* Lines 28-32.
GetOutputType ==
    /\ pc = "output_type"
    /\ IF item.output = "Type" THEN
           /\ output_type' = "T"
           /\ pc' = "modify_body"
           /\ UNCHANGED panicked
       ELSE
           /\ Abort("Expected typed return type")
           /\ UNCHANGED output_type
    /\ UNCHANGED <<item, mode, type_name, transformed_block, param_names,
                   expanded, stdout, run>>

\* Line 51.
TransformBody ==
    /\ pc = "modify_body"
    /\ LET block == modify_body(item.block)
       IN  IF IsPanic(block) THEN
               /\ Abort(block.op)
               /\ UNCHANGED transformed_block
           ELSE
               /\ transformed_block' = block
               /\ pc' = "param_names"
               /\ UNCHANGED panicked
    /\ UNCHANGED <<item, mode, type_name, output_type, param_names,
                   expanded, stdout, run>>

\* ParamNameOf taking whatever name the parameter has instead of panicking.
ParamNameOfLenient(input) == Path(input.name)

\* Lines 54-67: the closure's result for one parameter.
ParamNameOf(input) ==
    IF input.kind = "Typed" THEN
        IF input.pat = "Ident" THEN Path(input.name)
        ELSE Panic("Expected identifier pattern")
    ELSE Panic("Expected typed argument")

CollectParamNames ==
    /\ pc = "param_names"
    /\ LET names == [i \in 1..Len(item.inputs) |-> ParamNameOf(item.inputs[i])]
       IN  IF \E i \in 1..Len(names) : IsPanic(names[i]) THEN
               /\ Abort(FirstPanic(names).op)
               /\ UNCHANGED param_names
           ELSE
               /\ param_names' = [i \in 1..Len(names) |-> names[i].op]
               /\ pc' = "expand"
               /\ UNCHANGED panicked
    /\ UNCHANGED <<item, mode, type_name, output_type, transformed_block,
                   expanded, stdout, run>>

\* mapped_inputs binding the parameters last to first.
RECURSIVE mapped_inputs_reversed(_)
mapped_inputs_reversed(inputs) ==
    IF inputs = <<>> THEN <<>>
    ELSE LET input == Head(inputs)
             binding ==
                 IF input.kind = "Typed" /\ input.pat = "Ident"
                 THEN <<Local(input.name,
                          Reference(MethodCall("input",
                            <<Reference(MethodCall("into",
                                <<MethodCall("clone", <<Path(input.name)>>)>>))>>)))>>
                 ELSE <<>>
         IN  mapped_inputs_reversed(Tail(inputs)) \o binding

\* Lines 35-48: one `let x = &context.input(&x.clone().into());` per typed
\* identifier parameter, nothing for any other parameter.
RECURSIVE mapped_inputs(_)
mapped_inputs(inputs) ==
    IF inputs = <<>> THEN <<>>
    ELSE LET input == Head(inputs)
             binding ==
                 IF input.kind = "Typed" /\ input.pat = "Ident"
                 THEN <<Local(input.name,
                          Reference(MethodCall("input",
                            <<Reference(MethodCall("into",
                                <<MethodCall("clone", <<Path(input.name)>>)>>))>>)))>>
                 ELSE <<>>
         IN  binding \o mapped_inputs(Tail(inputs))

\* match_arms with the u64 arm instantiating the 32-bit specialization.
match_arms_copied(names) ==
    <<[pat |-> "u8", generate |-> 8, args |-> names],
      [pat |-> "u16", generate |-> 16, args |-> names],
      [pat |-> "u32", generate |-> 32, args |-> names],
      [pat |-> "u64", generate |-> 32, args |-> names],
      [pat |-> "u128", generate |-> 128, args |-> names],
      [pat |-> "_", generate |-> 0, args |-> <<>>]>>

\* Lines 70-79: the arms of the emitted match, in order.
match_arms(names) ==
    <<[pat |-> "u8", generate |-> 8, args |-> names],
      [pat |-> "u16", generate |-> 16, args |-> names],
      [pat |-> "u32", generate |-> 32, args |-> names],
      [pat |-> "u64", generate |-> 64, args |-> names],
      [pat |-> "u128", generate |-> 128, args |-> names],
      [pat |-> "_", generate |-> 0, args |-> <<>>]>>

\* Lines 82-98: the return type and the closing statements chosen by mode.
EmittedOutputType(m, declared) == IF m = "compile" THEN "(Circuit, Vec<bool>)" ELSE declared
operation(m) == IF m = "compile" THEN "compile" ELSE "execute"

\* Lines 101-132: assemble the wrapper, print it, return it.
Expand ==
    /\ pc = "expand"
    /\ LET wrapper ==
             [ident |-> item.ident,
              generic |-> type_name,
              inputs |-> item.inputs,
              output |-> EmittedOutputType(mode, output_type),
              generate |->
                 [inputs |-> item.inputs,
                  output |-> EmittedOutputType(mode, output_type),
                  mapped_inputs |-> mapped_inputs(item.inputs),
                  output_block |-> Block(<<StmtExpr(transformed_block, "")>>),
                  operation |-> operation(mode)],
              match_arms |-> match_arms(param_names)]
       IN  /\ expanded' = <<wrapper>>
           /\ stdout' = Append(stdout, wrapper)
    /\ pc' = "returned"
    /\ UNCHANGED <<item, mode, type_name, output_type, transformed_block,
                   param_names, panicked, run>>

(***************************************************************************)
(* The circuit builder the emitted code calls.  A node's value is an       *)
(* unsigned integer of N bits, kept as N/8 little-endian limbs of 8 bits.  *)
(***************************************************************************)
Value(limbs) == [ok |-> TRUE, limbs |-> limbs]
\* No node: the expression is not one the builder interface accepts.
NoValue == [ok |-> FALSE, limbs |-> <<>>]
\* A node whose value the builder leaves to its own division semantics.
Opaque == [ok |-> TRUE, limbs |-> <<>>]

FromNat(n, N) == [i \in 1..(N \div 8) |-> IF i = 1 THEN n ELSE 0]
MaxUint(N) == [i \in 1..(N \div 8) |-> 255]

RECURSIVE AddLimbs(_, _, _, _)
AddLimbs(x, y, i, carry) ==
    IF i > Len(x) THEN <<>>
    ELSE LET s == x[i] + y[i] + carry
         IN  <<s % 256>> \o AddLimbs(x, y, i + 1, s \div 256)

NotLimbs(x) == [i \in 1..Len(x) |-> 255 - x[i]]

RECURSIVE Column(_, _, _, _)
Column(x, y, k, i) ==
    IF i > k THEN 0 ELSE x[i] * y[k + 1 - i] + Column(x, y, k, i + 1)

RECURSIVE MulLimbs(_, _, _, _)
MulLimbs(x, y, k, carry) ==
    IF k > Len(x) THEN <<>>
    ELSE LET s == Column(x, y, k, 1) + carry
         IN  <<s % 256>> \o MulLimbs(x, y, k + 1, s \div 256)

RECURSIVE BitOp(_, _, _, _)
BitOp(method, x, y, bits) ==
    IF bits = 0 THEN 0
    ELSE LET p == x % 2
             q == y % 2
             r == CASE method = "and" -> p * q
                    [] method = "or" -> p + q - p * q
                    [] method = "xor" -> (p + q) % 2
         IN  r + 2 * BitOp(method, x \div 2, y \div 2, bits - 1)

RECURSIVE LessFrom(_, _, _)
LessFrom(x, y, i) ==
    IF i = 0 THEN FALSE
    ELSE IF x[i] # y[i] THEN x[i] < y[i]
    ELSE LessFrom(x, y, i - 1)

Less(x, y) == LessFrom(x, y, Len(x))
Bool(p, N) == FromNat(IF p THEN 1 ELSE 0, N)

\* context.<method>(operands) on nodes of width N.
Builder(method, v, N) ==
    IF \E i \in 1..Len(v) : ~v[i].ok THEN NoValue
    ELSE IF \E i \in 1..Len(v) : v[i].limbs = <<>> THEN Opaque
    ELSE LET x == v[1].limbs
             y == v[Len(v)].limbs
             z == v[(Len(v) + 1) \div 2].limbs
         IN CASE method = "add" -> Value(AddLimbs(x, y, 1, 0))
              [] method = "sub" -> Value(AddLimbs(x, NotLimbs(y), 1, 1))
              [] method = "mul" -> Value(MulLimbs(x, y, 1, 0))
              [] method \in {"div", "rem"} -> Opaque
              [] method \in {"and", "or", "xor"} ->
                   Value([i \in 1..Len(x) |-> BitOp(method, x[i], y[i], 8)])
              [] method = "not" -> Value(NotLimbs(x))
              [] method = "eq" -> Value(Bool(x = y, N))
              [] method = "ne" -> Value(Bool(x # y, N))
              [] method = "lt" -> Value(Bool(Less(x, y), N))
              [] method = "le" -> Value(Bool(~Less(y, x), N))
              [] method = "gt" -> Value(Bool(Less(y, x), N))
              [] method = "ge" -> Value(Bool(~Less(x, y), N))
              [] method = "mux" ->
                   \* mux(cond, if_true, if_false)
                   Value(IF x # FromNat(0, N) THEN z ELSE y)
              [] method \in {"input", "into", "clone"} -> Value(x)
              [] OTHER -> NoValue

(***************************************************************************)
(* Running the emitted wrapper.  Evaluation is the host language's: a      *)
(* block runs its statements in order, a call evaluates its arguments left *)
(* to right.  The trace lists the context calls and let-bindings in the    *)
(* order they happen.                                                      *)
(***************************************************************************)
Bind(env, name, value) ==
    [x \in DOMAIN env \cup {name} |-> IF x = name THEN value ELSE env[x]]

\* Method calls that are conversions on a value, not calls on the context.
Conversions == {"into", "clone"}

RECURSIVE EvalExpr(_, _, _), EvalStmts(_, _, _, _), EvalArgs(_, _, _, _)

EvalExpr(expr, env, N) ==
    IF expr.tag = "Path" THEN
        [val |-> IF expr.op \in DOMAIN env THEN env[expr.op] ELSE NoValue,
         trace |-> <<>>]
    ELSE IF expr.tag \in {"Reference", "Paren"} THEN
        EvalExpr(expr.kids[1], env, N)
    ELSE IF expr.tag = "Block" THEN
        EvalStmts(expr.kids, 1, env, N)
    ELSE IF expr.tag = "MethodCall" THEN
        LET args == EvalArgs(expr.kids, 1, env, N)
        IN  [val |-> Builder(expr.op, args.vals, N),
             trace |-> IF expr.op \in Conversions THEN args.trace
                       ELSE Append(args.trace, expr.op)]
    ELSE
        \* A host operator, conditional or loop over nodes: not a builder call.
        [val |-> NoValue, trace |-> <<>>]

EvalArgs(args, i, env, N) ==
    IF i > Len(args) THEN [vals |-> <<>>, trace |-> <<>>]
    ELSE LET first == EvalExpr(args[i], env, N)
             rest == EvalArgs(args, i + 1, env, N)
         IN  [vals |-> <<first.val>> \o rest.vals,
              trace |-> first.trace \o rest.trace]

EvalStmts(stmts, i, env, N) ==
    IF i > Len(stmts) THEN [val |-> NoValue, trace |-> <<>>]
    ELSE LET stmt == stmts[i] IN
        IF stmt.tag = "Local" /\ Len(stmt.kids) = 1 THEN
            LET init == EvalExpr(stmt.kids[1], env, N)
                rest == EvalStmts(stmts, i + 1, Bind(env, stmt.op, init.val), N)
            IN  [val |-> rest.val,
                 trace |-> init.trace \o <<"let " \o stmt.op>> \o rest.trace]
        ELSE IF stmt.tag = "StmtExpr" THEN
            LET this == EvalExpr(stmt.kids[1], env, N)
                rest == EvalStmts(stmts, i + 1, env, N)
            IN  IF i = Len(stmts) /\ stmt.op = "" THEN this
                ELSE [val |-> rest.val, trace |-> this.trace \o rest.trace]
        ELSE EvalStmts(stmts, i + 1, env, N)

\* The type names std::any::type_name can report for the wrapper's T.
TypeTokens == {"u8", "u16", "u32", "u64", "u128", "i32"}

ArgVals(N) == {FromNat(n, N) : n \in 0..MaxArg} \cup {MaxUint(N)}

\* The first arm of the match that accepts the token.
SelectArm(arms, token) ==
    arms[CHOOSE i \in 1..Len(arms) :
            /\ arms[i].pat \in {token, "_"}
            /\ \A j \in 1..(i - 1) : arms[j].pat \notin {token, "_"}]

Occurrences(seq, x) == Cardinality({i \in 1..Len(seq) : seq[i] = x})

\* The body of the emitted `generate::<N, T>` (lines 112-123), called with
\* `passed`, one value per parameter of `generate`.
Generate(w, N, passed) ==
    LET g == w.generate
        names == {g.inputs[i].name : i \in 1..Len(g.inputs)}
        env == [name \in names |->
                  Value(passed[CHOOSE i \in 1..Len(g.inputs) : g.inputs[i].name = name])]
        body == EvalStmts(g.mapped_inputs \o <<StmtExpr(g.output_block, "")>>,
                          1, env, N)
    IN  [outcome |-> IF body.val.ok THEN "ok" ELSE "rejected",
         width |-> N,
         trace |-> IF body.val.ok
                   THEN body.trace \o <<"let output">> \o
                        (IF g.operation = "compile" THEN <<"compile", "inputs">>
                                                    ELSE <<"compile", "execute">>)
                   ELSE body.trace,
         returns |-> IF ~body.val.ok THEN "nothing"
                     ELSE IF g.operation = "compile" THEN "circuit" ELSE "value",
         result |-> IF g.operation = "compile" THEN NoValue ELSE body.val,
         input_bits |-> N * Occurrences(body.trace, "input")]

\* Lines 70-79 and 125 as they run: the wrapper matches the type name and
\* calls the selected specialization with its own parameters.
CallWrapper ==
    /\ pc = "returned"
    /\ \E token \in TypeTokens :
         LET w == expanded[1]
             arm == SelectArm(w.match_arms, token)
         IN  IF arm.pat = "_" THEN
                 run' = <<[token |-> token, args |-> <<>>,
                           call |-> [outcome |-> "panic: Unsupported type",
                                     width |-> 0, trace |-> <<>>,
                                     returns |-> "nothing", result |-> NoValue,
                                     input_bits |-> 0]]>>
             ELSE
                 \E args \in [1..Len(w.inputs) -> ArgVals(arm.generate)] :
                    LET passed == [j \in 1..Len(arm.args) |->
                                     args[CHOOSE i \in 1..Len(w.inputs) :
                                            w.inputs[i].name = arm.args[j]]]
                    IN  run' = <<[token |-> token, args |-> args,
                                  call |-> Generate(w, arm.generate, passed)]>>
    /\ pc' = "called"
    /\ UNCHANGED <<item, mode, type_name, output_type, transformed_block,
                   param_names, expanded, stdout, panicked>>

Next ==
    \/ GetTypeName
    \/ GetOutputType
    \/ TransformBody
    \/ CollectParamNames
    \/ Expand
    \/ CallWrapper

Spec == Init /\ [][Next]_vars

(***************************************************************************)
(* Properties                                                              *)
(***************************************************************************)
Transformed == transformed_block # NoNode
Emitted == expanded # <<>>
Called == pc = "called"
Dispatched == Called /\ run[1].call.width > 0

\* The expressions modify_body hands to replace_expressions at the top level
\* of the body, each paired with what stands in its place afterwards.
Rewrites ==
    {<<item.block.kids[i].kids[1], transformed_block.kids[i].kids[1]>> :
        i \in {j \in 1..Len(item.block.kids) :
                 /\ item.block.kids[j].tag \in {"StmtExpr", "Local"}
                 /\ Len(item.block.kids[j].kids) = 1}}

\* The operators the spec lists, with the operation each maps to.
OperationOf ==
    [op \in {"Eq", "Ne", "Gt", "Ge", "Lt", "Le", "Add", "Sub", "Mul", "Div",
             "Rem", "BitAnd", "BitOr", "BitXor", "Not"} |->
        CASE op = "Eq" -> "eq" [] op = "Ne" -> "ne" [] op = "Gt" -> "gt"
          [] op = "Ge" -> "ge" [] op = "Lt" -> "lt" [] op = "Le" -> "le"
          [] op = "Add" -> "add" [] op = "Sub" -> "sub" [] op = "Mul" -> "mul"
          [] op = "Div" -> "div" [] op = "Rem" -> "rem" [] op = "BitAnd" -> "and"
          [] op = "BitOr" -> "or" [] op = "BitXor" -> "xor" [] op = "Not" -> "not"]

IsOperator(e) ==
    \/ e.tag = "Binary" /\ e.op \in DOMAIN OperationOf
    \/ e.tag = "Unary" /\ e.op = "Not"
IsComparison(e) == e.tag = "Binary" /\ e.op \in {"Eq", "Ne", "Gt", "Ge", "Lt", "Le"}

\* The expression a call argument `&...` refers to: the argument's tokens
\* without the leading `&`.
RECURSIVE Referent(_)
Referent(arg) ==
    IF arg.tag = "Reference" THEN arg.kids[1]
    ELSE IF arg.tag = "Binary"
         THEN Binary(arg.op, Referent(arg.kids[1]), arg.kids[2])
    ELSE arg

\* out is `{ &context.method(args) }` and nothing else.
IsCallBlock(out) ==
    /\ out.tag = "Block"
    /\ Len(out.kids) = 1
    /\ out.kids[1].tag = "StmtExpr"
    /\ out.kids[1].kids[1].tag = "Reference"
    /\ out.kids[1].kids[1].kids[1].tag = "MethodCall"
CallOf(out) == out.kids[1].kids[1].kids[1]

\* C1 as stated: every listed operator becomes exactly one builder call of
\* the mapped operation whose arguments are the original left operand and
\* the original right operand, in that order.
C1_OriginalOperands ==
    Transformed =>
        \A r \in Rewrites :
            IsOperator(r[1]) =>
                /\ IsCallBlock(r[2])
                /\ CallOf(r[2]).op = OperationOf[r[1].op]
                /\ Len(CallOf(r[2]).kids) = Len(r[1].kids)
                /\ \A k \in 1..Len(r[1].kids) :
                      Referent(CallOf(r[2]).kids[k]) = r[1].kids[k]

\* C1 amended: every listed operator becomes exactly one builder call of the
\* mapped operation whose arguments stand for the left operand first and the
\* right operand second; for a comparison each argument is the operand as
\* rewritten by replace_expressions, for every other operator it is the
\* original operand.
C1_OperatorMapping ==
    Transformed =>
        \A r \in Rewrites :
            IsOperator(r[1]) =>
                /\ IsCallBlock(r[2])
                /\ CallOf(r[2]).op = OperationOf[r[1].op]
                /\ Len(CallOf(r[2]).kids) = Len(r[1].kids)
                /\ \A k \in 1..Len(r[1].kids) :
                      Referent(CallOf(r[2]).kids[k]) =
                          IF IsComparison(r[1])
                          THEN replace_expressions(r[1].kids[k])
                          ELSE r[1].kids[k]

\* A comparison whose left operand is a nested sum has been rewritten, the
\* sum with it.
C1_Witness ==
    /\ Transformed
    /\ \E r \in Rewrites :
          /\ IsComparison(r[1])
          /\ r[1].kids[1].tag = "Binary"
          /\ r[1].kids[1].op = "Add"
          /\ r[1].kids[2] = b
          /\ IsCallBlock(r[2])

\* An operator or conditional of the listed kinds stands in node as a
\* statement, a let initializer or an argument of a builder call.  (Loops,
\* nested items, parentheses and operators outside the list are not
\* searched.)
RECURSIVE HasResidual(_)
HasResidual(node) ==
    \/ IsOperator(node)
    \/ node.tag = "If"
    \/ /\ node.tag \in {"Block", "StmtExpr", "Local", "Reference", "MethodCall"}
       /\ \E k \in 1..Len(node.kids) : HasResidual(node.kids[k])

\* C2: the block modify_body returns contains no arithmetic, comparison,
\* bitwise, unary-not or conditional expression at any depth of its
\* expression statements and let-initializers, operands of another operator
\* included.
C2_EverythingLowered == Transformed => ~HasResidual(transformed_block)

\* C3: a conditional with a block else arm becomes one block that binds
\* if_true to the rewritten then block, if_false to the rewritten else
\* block and cond to the rewritten condition, in that order, and ends in
\* mux(cond, if_true, if_false), none of the four being an `if`; when the
\* wrapper runs, the then value, the else value and the condition are built
\* in that order before the mux call whatever the arguments are.
C3_ConditionalLowering ==
    /\ Transformed =>
          \A r \in Rewrites :
              r[1].tag = "If" =>
                  /\ r[2].tag = "Block"
                  /\ Len(r[2].kids) = 4
                  /\ \A k \in 1..3 : r[2].kids[k].kids[1].tag # "If"
                  /\ r[2].kids[1] = Local("if_true", modify_body(r[1].kids[2]))
                  /\ r[2].kids[2] = Local("if_false", modify_body(r[1].kids[3]))
                  /\ r[2].kids[3] = Local("cond", replace_expressions(r[1].kids[1]))
                  /\ r[2].kids[4] = StmtExpr(Reference(MethodCall("mux",
                        <<Path("cond"), Path("if_true"), Path("if_false")>>)), "")
    /\ (Dispatched /\ Len(item.block.kids) = 1 /\ item.block.kids[1].tag = "StmtExpr"
          /\ item.block.kids[1].kids[1].tag = "If") =>
          LET e == item.block.kids[1].kids[1]
              N == run[1].call.width
              n == Len(item.inputs)
              env == [name \in {item.inputs[i].name : i \in 1..n} |->
                        Value(run[1].args[CHOOSE i \in 1..n :
                                            item.inputs[i].name = name])]
              then_trace == EvalExpr(modify_body(e.kids[2]), env, N).trace
              else_trace == EvalExpr(modify_body(e.kids[3]), env, N).trace
              cond_trace == EvalExpr(replace_expressions(e.kids[1]), env, N).trace
              expected == then_trace \o <<"let if_true">> \o else_trace \o
                          <<"let if_false">> \o cond_trace \o <<"let cond", "mux">>
              trace == run[1].call.trace
          IN  /\ Len(trace) >= 2 * n + Len(expected)
              /\ SubSeq(trace, 2 * n + 1, 2 * n + Len(expected)) = expected

\* The wrapper for `if a > b { a * b } else { .. }` ran with a = 0, b = 1:
\* the condition is false and the then value was still multiplied out.
C3_Witness ==
    /\ Dispatched
    /\ Len(item.block.kids) = 1
    /\ item.block.kids[1].kids[1].tag = "If"
    /\ item.block.kids[1].kids[1].kids[1] = Binary("Gt", a, b)
    /\ item.block.kids[1].kids[1].kids[2] = Block(<<StmtExpr(Binary("Mul", a, b), "")>>)
    /\ run[1].call.outcome = "ok"
    /\ run[1].args[1] = FromNat(0, run[1].call.width)
    /\ run[1].args[2] = FromNat(1, run[1].call.width)
    /\ \E i \in 1..Len(run[1].call.trace) :
          /\ run[1].call.trace[i] = "mul"
          /\ run[1].call.trace[i + 1] = "let if_true"
    /\ run[1].call.trace[Len(run[1].call.trace) - 3] = "mux"

\* The declared shape generate_macro rejects: no parameter, a first
\* parameter that is not typed, a parameter that is not a typed simple
\* identifier, or no typed return type.
BadSignature ==
    \/ Len(item.inputs) = 0
    \/ item.inputs[1].kind # "Typed"
    \/ \E i \in 1..Len(item.inputs) :
          item.inputs[i].kind # "Typed" \/ item.inputs[i].pat # "Ident"
    \/ item.output # "Type"

\* An `if` without an else arm, or with an else arm that is not a block.
BadIf(e) ==
    /\ e.tag = "If"
    /\ \/ Len(e.kids) = 2
       \/ Len(e.kids) = 3 /\ e.kids[3].tag # "Block"

\* Such an `if` occurs in node as a statement or let initializer of a block
\* at any depth: of the body, of a branch, of a loop or of a nested item.
\* (Operands of operators and parentheses are not searched.)
RECURSIVE HasBadIf(_)
HasBadIf(node) ==
    \/ BadIf(node)
    \/ /\ node.tag \in {"Block", "StmtExpr", "Local", "If", "ForLoop", "Item"}
       /\ \E k \in 1..Len(node.kids) : HasBadIf(node.kids[k])

\* Such an `if` occurs where the rewriter looks: as an expression statement
\* or let initializer of the block, as an operand of a comparison found
\* there, or as the condition or inside a branch block of a conditional
\* found there.
RECURSIVE VisitsBadIf(_)
VisitsBadIf(node) ==
    \/ BadIf(node)
    \/ /\ node.tag = "Block"
       /\ \E k \in 1..Len(node.kids) :
             /\ node.kids[k].tag \in {"StmtExpr", "Local"}
             /\ Len(node.kids[k].kids) = 1
             /\ VisitsBadIf(node.kids[k].kids[1])
    \/ /\ IsComparison(node)
       /\ \E k \in 1..2 : VisitsBadIf(node.kids[k])
    \/ /\ node.tag = "If"
       /\ \E k \in 1..Len(node.kids) : VisitsBadIf(node.kids[k])

Finished == pc \in {"aborted", "returned", "called"}

\* C4 as stated: with a rejected signature or an `if` statement or
\* initializer anywhere in the declaration that lacks a plain block else arm,
\* generate_macro panics and neither prints nor returns a wrapper; a wrapper
\* is emitted only otherwise.
C4_AnyIf ==
    /\ (BadSignature \/ HasBadIf(item.block)) =>
          /\ stdout = <<>>
          /\ expanded = <<>>
          /\ Finished => pc = "aborted" /\ panicked # ""
    /\ Emitted => ~(BadSignature \/ HasBadIf(item.block))

\* C4 amended: the same, for an `if` the rewriter visits.
C4_FailFast ==
    /\ (BadSignature \/ VisitsBadIf(item.block)) =>
          /\ stdout = <<>>
          /\ expanded = <<>>
          /\ Finished => pc = "aborted" /\ panicked # ""
    /\ Emitted => ~(BadSignature \/ VisitsBadIf(item.block))
    /\ (Finished /\ ~(BadSignature \/ VisitsBadIf(item.block))) =>
          Emitted /\ stdout = expanded /\ panicked = ""

\* An else-if chain in an otherwise well-formed declaration: the
\* transformation has aborted with nothing printed.
C4_Witness ==
    /\ pc = "aborted"
    /\ ~BadSignature
    /\ panicked = "Expected a block in else branch"
    /\ stdout = <<>>
    /\ expanded = <<>>

\* C5: a mode other than compile or execute aborts the transformation and
\* no wrapper is emitted.
C5_ModeRestricted ==
    mode \notin {"compile", "execute"} =>
        /\ expanded = <<>>
        /\ stdout = <<>>
        /\ Finished => pc = "aborted"

\* The width each supported type name stands for.
WidthOf == [token \in {"u8", "u16", "u32", "u64", "u128"} |->
              CASE token = "u8" -> 8 [] token = "u16" -> 16 [] token = "u32" -> 32
                [] token = "u64" -> 64 [] token = "u128" -> 128]

DeclaredNames == [i \in 1..Len(item.inputs) |-> item.inputs[i].name]

\* C6: each of u8, u16, u32, u64, u128 selects exactly one arm of the emitted
\* match, the one instantiating the body at the matching width with the
\* parameters in declaration order; any other type name reaches the
\* "Unsupported type" panic and no specialization.
C6_Dispatch ==
    /\ Emitted =>
          LET arms == expanded[1].match_arms IN
          \A token \in DOMAIN WidthOf :
              /\ Cardinality({i \in 1..Len(arms) : arms[i].pat = token}) = 1
              /\ \A i \in 1..Len(arms) :
                    arms[i].pat = token =>
                        /\ arms[i].generate = WidthOf[token]
                        /\ arms[i].args = DeclaredNames
                        /\ \A j \in 1..(i - 1) : arms[j].pat # "_"
    /\ Called =>
          IF run[1].token \in DOMAIN WidthOf
          THEN /\ run[1].call.width = WidthOf[run[1].token]
               /\ run[1].call.outcome # "panic: Unsupported type"
               /\ run[1].call.input_bits = WidthOf[run[1].token] * Len(item.inputs)
          ELSE /\ run[1].call.outcome = "panic: Unsupported type"
               /\ run[1].call.width = 0
               /\ run[1].call.trace = <<>>

\* The wrapper was called with T = u128 and ran the 128-bit specialization.
C6_Witness ==
    /\ Called
    /\ run[1].token = "u128"
    /\ run[1].call.width = 128
    /\ run[1].call.outcome = "ok"

\* A body that is one expression over the parameters built from
\* + - * & | ^ alone.
RECURSIVE PureArithmetic(_)
PureArithmetic(e) ==
    \/ e.tag = "Path" /\ e.op \in {item.inputs[i].name : i \in 1..Len(item.inputs)}
    \/ /\ e.tag = "Binary"
       /\ e.op \in {"Add", "Sub", "Mul", "BitAnd", "BitOr", "BitXor"}
       /\ PureArithmetic(e.kids[1])
       /\ PureArithmetic(e.kids[2])

\* The expression evaluated on unsigned integers of the width of args,
\* modulo 2^width.
RECURSIVE Direct(_, _)
Direct(e, args) ==
    IF e.tag = "Path"
    THEN args[CHOOSE i \in 1..Len(item.inputs) : item.inputs[i].name = e.op]
    ELSE LET x == Direct(e.kids[1], args)
             y == Direct(e.kids[2], args)
         IN  CASE e.op = "Add" -> AddLimbs(x, y, 1, 0)
               [] e.op = "Sub" -> AddLimbs(x, NotLimbs(y), 1, 1)
               [] e.op = "Mul" -> MulLimbs(x, y, 1, 0)
               [] e.op = "BitAnd" -> [i \in 1..Len(x) |-> BitOp("and", x[i], y[i], 8)]
               [] e.op = "BitOr" -> [i \in 1..Len(x) |-> BitOp("or", x[i], y[i], 8)]
               [] e.op = "BitXor" -> [i \in 1..Len(x) |-> BitOp("xor", x[i], y[i], 8)]

\* C7: at every supported width and for all arguments of that width, the
\* Execute-mode wrapper of a pure-arithmetic function, nested
\* sub-expressions included, returns what the original expression evaluates
\* to modulo 2^width.
C7_ExecuteEqualsDirect ==
    (/\ Dispatched
     /\ expanded[1].generate.operation = "execute"
     /\ Len(item.block.kids) = 1
     /\ item.block.kids[1].tag = "StmtExpr"
     /\ PureArithmetic(item.block.kids[1].kids[1])) =>
        /\ run[1].call.outcome = "ok"
        /\ run[1].call.result = Value(Direct(item.block.kids[1].kids[1], run[1].args))

\* `let x = &context.input(&x.clone().into());`
InputBinding(x) ==
    Local(x, Reference(MethodCall("input",
        <<Reference(MethodCall("into", <<MethodCall("clone", <<Path(x)>>)>>))>>)))

\* C8: an emitted wrapper holds exactly one input binding per declared
\* parameter, in declaration order, each rebinding the parameter's own
\* identifier to context.input; when the wrapper runs, these bindings happen
\* first and in that order, and nothing else creates an input.
C8_InputBindings ==
    /\ Emitted =>
          /\ expanded[1].generate.mapped_inputs =
                [i \in 1..Len(item.inputs) |-> InputBinding(item.inputs[i].name)]
          /\ expanded[1].generate.inputs = item.inputs
    /\ Dispatched =>
          LET trace == run[1].call.trace
              n == Len(item.inputs)
          IN  /\ Len(trace) >= 2 * n
              /\ \A i \in 1..n :
                    /\ trace[2 * i - 1] = "input"
                    /\ trace[2 * i] = "let " \o item.inputs[i].name
              /\ \A k \in (2 * n + 1)..Len(trace) : trace[k] # "input"

\* A wrapper for a two-parameter function has run.
C8_Witness ==
    /\ Dispatched
    /\ Len(item.inputs) = 2
    /\ Len(expanded[1].generate.mapped_inputs) = 2
    /\ Len(run[1].call.trace) > 4

\* The shapes replace_expressions rewrites at the top of an expression.
IsRewritten(e) == IsOperator(e) \/ e.tag = "If"

\* C9: modify_body keeps the number and order of statements, changes only
\* expression statements and let initializers, and leaves every other
\* statement, every let without initializer and every expression of another
\* top-level shape, a loop and the arithmetic in it included, as it was.
C9_Frame ==
    Transformed =>
        /\ transformed_block.tag = "Block"
        /\ Len(transformed_block.kids) = Len(item.block.kids)
        /\ \A i \in 1..Len(item.block.kids) :
              LET in == item.block.kids[i]
                  out == transformed_block.kids[i]
              IN  /\ out.tag = in.tag
                  /\ out.op = in.op
                  /\ Len(out.kids) = Len(in.kids)
                  /\ (\/ in.tag \notin {"StmtExpr", "Local"}
                      \/ Len(in.kids) = 0
                      \/ ~IsRewritten(in.kids[1])) => out = in

\* A body with a let, a loop holding arithmetic, and a tail expression has
\* been transformed, the loop still in second place.
C9_Witness ==
    /\ Transformed
    /\ Len(item.block.kids) = 3
    /\ item.block.kids[2] = LoopStmt
    /\ transformed_block.kids[2] = LoopStmt
    /\ transformed_block.kids[1] # item.block.kids[1]

\* node contains a call on the builder.
RECURSIVE HasCall(_)
HasCall(node) ==
    \/ node.tag = "MethodCall"
    \/ \E k \in 1..Len(node.kids) : HasCall(node.kids[k])

\* C10: a comparison's arguments are its operands as rewritten (an operator
\* or conditional operand has become a builder block), left before right;
\* the arguments of add, sub, mul, div, rem, and, or, xor and not are the
\* operands as written, so an operator or conditional directly under them
\* stays un-lowered.
C10_Asymmetry ==
    Transformed =>
        \A r \in Rewrites :
            (IsOperator(r[1]) /\ IsCallBlock(r[2])) =>
                \A k \in 1..Len(r[1].kids) :
                    LET operand == r[1].kids[k]
                        arg == Referent(CallOf(r[2]).kids[k])
                    IN  IF IsComparison(r[1])
                        THEN /\ IsRewritten(operand) => arg.tag = "Block" /\ HasCall(arg)
                             /\ ~IsRewritten(operand) => arg = operand
                        ELSE /\ arg = operand
                             /\ ~HasCall(arg)

\* `a * b + t` has been rewritten to add(&a * b, &t): the product is still a
\* host multiplication.
C10_Witness ==
    /\ Transformed
    /\ \E r \in Rewrites :
          /\ r[1] = Binary("Add", Binary("Mul", a, b), Path("t"))
          /\ IsCallBlock(r[2])
          /\ CallOf(r[2]).op = "add"
          /\ CallOf(r[2]).kids[1] = Binary("Mul", Reference(a), b)
====
